---- MODULE Spec2Model ----
(***************************************************************************)
(* GpxTrackPoster: the YearRange value object (year_range.py) and the      *)
(* Poster orchestrator (poster.py).                                        *)
(*                                                                         *)
(* Text is modelled as a sequence of one-character strings, so that the    *)
(* regular expressions of YearRange.parse and the strftime key of          *)
(* Poster.set_tracks are computed character by character.                  *)
(***************************************************************************)
EXTENDS Integers, Sequences, FiniteSets, TLC

VARIABLES
    yr,                 \* a YearRange object: [from_year, to_year]
    yr_call,            \* the last call made on yr: [op, s, t, ret, pre]
    tracks,             \* Poster.tracks
    tracks_by_date,     \* Poster.tracks_by_date, a dict in insertion order
    length_range,       \* Poster.length_range
    length_range_by_date, \* Poster.length_range_by_date
    years,              \* Poster.years: <<>> (None) or <<a YearRange>>
    years_by,           \* who bound Poster.years: "none", "caller", "compute_years"
    width,              \* Poster.width
    height,             \* Poster.height
    tracks_drawer,      \* Poster.tracks_drawer
    emitted,            \* the calls the last operation made on its collaborators
    stats,              \* what __compute_track_statistics returned in the last draw
    call                \* the last call made on the Poster: [op, raised, pre_years]

vars == <<yr, yr_call, tracks, tracks_by_date, length_range, length_range_by_date,
          years, years_by, width, height, tracks_drawer, emitted, stats, call>>

yr_vars == <<yr, yr_call>>

poster_vars == <<tracks, tracks_by_date, length_range, length_range_by_date,
                 years, years_by, width, height, tracks_drawer, emitted, stats, call>>

(***************************************************************************)
(* Bounds and input sets                                                   *)
(***************************************************************************)

\* The longest track list handed to set_tracks.
MaxTracks == 2

\* Python's None, for the optional integers of YearRange and ValueRange.
None == -1

Digits == {"0", "1", "2", "3", "4", "5", "6", "7", "8", "9"}

\* datetime values: year, month, day, hour.
DT(y, m, d, h) == [year |-> y, month |-> m, day |-> d, hour |-> h]

\* The timestamps handed to YearRange.add and YearRange.contains.
Timestamps ==
    { DT(2019, 12, 30, 7), DT(2020, 12, 31, 10), DT(2021, 1, 1, 8),
      DT(2021, 6, 15, 9), DT(2022, 3, 5, 12) }

\* The texts handed to YearRange.parse.
ParseInputs ==
    { <<"a", "l", "l">>,
      <<"2", "0", "2", "0">>,
      <<"2", "0", "2", "1">>,
      <<"2", "0", "2", "0", "-", "2", "0", "2", "1">>,
      <<"2", "0", "2", "1", "-", "2", "0", "2", "0">>,
      <<"2", "0", "2", "1", "-", "2", "0", "2", "1">>,
      <<"2", "0", "2", "0", "\n">>,
      <<"2", "0", "2", "0", "-", "2", "0", "2", "1", "\n">>,
      <<"2", "0", "2", "1", "-", "2", "0", "2", "0", "\n">>,
      <<"a", "l", "l", "\n">>,
      <<>>,
      <<"\n">>,
      <<"x">>,
      <<"-">>,
      <<"2", "0", "x", "0">>,
      <<"2", "0", "2", "0", "-">>,
      <<"-", "2", "0", "2", "1">>,
      <<" ", "2", "0", "2", "0">>,
      <<"2", "0", "2", "0", "\n", "\n">>,
      <<"2", "0", "2", "0", "-", "2", "0", "2", "1", "-", "2", "0", "2", "1">> }

(***************************************************************************)
(* Text helpers: Python's re.match and int                                 *)
(***************************************************************************)

\* What "$" does in a Python pattern without re.MULTILINE: it matches at the
\* end of the text and also just before one newline that ends the text.
dollar(s) ==
    IF Len(s) > 0 /\ s[Len(s)] = "\n" THEN {s, SubSeq(s, 1, Len(s) - 1)} ELSE {s}

\* \d+ against the whole of s
all_digits(s) == Len(s) >= 1 /\ \A i \in 1..Len(s) : s[i] \in Digits

digit_value(c) ==
    CASE c = "0" -> 0 [] c = "1" -> 1 [] c = "2" -> 2 [] c = "3" -> 3
      [] c = "4" -> 4 [] c = "5" -> 5 [] c = "6" -> 6 [] c = "7" -> 7
      [] c = "8" -> 8 [] c = "9" -> 9

RECURSIVE decimal(_)
decimal(s) ==
    IF Len(s) = 0 THEN 0
    ELSE 10 * decimal(SubSeq(s, 1, Len(s) - 1)) + digit_value(s[Len(s)])

Whitespace == {" ", "\n"}

RECURSIVE strip(_)
strip(s) ==
    IF Len(s) > 0 /\ s[1] \in Whitespace THEN strip(Tail(s))
    ELSE IF Len(s) > 0 /\ s[Len(s)] \in Whitespace THEN strip(SubSeq(s, 1, Len(s) - 1))
    ELSE s

\* int(s) for a text that is decimal digits within optional whitespace
int(s) == decimal(strip(s))

\* re.match(r"^\d+$", s)
match_year(s) == \E body \in dollar(s) : all_digits(body)

\* re.match(r"^(\d+)-(\d+)$", s): the set of (group 1, group 2) pairs, empty
\* when the text does not match
match_range(s) ==
    { <<SubSeq(body, 1, i - 1), SubSeq(body, i + 1, Len(body))>> :
        <<body, i>> \in { <<b, j>> \in dollar(s) \X (1..Len(s)) :
                            /\ j <= Len(b)
                            /\ b[j] = "-"
                            /\ all_digits(SubSeq(b, 1, j - 1))
                            /\ all_digits(SubSeq(b, j + 1, Len(b))) } }

(***************************************************************************)
(* YearRange                                                               *)
(***************************************************************************)

\* YearRange.__init__
YearRange == [from_year |-> None, to_year |-> None]

all_token == <<"a", "l", "l">>

\* a parse that accepts the hyphen form whatever the order of its years
parse_unordered(self, s) ==
    IF s = all_token
    THEN [self |-> [from_year |-> None, to_year |-> None], ret |-> TRUE]
    ELSE IF match_year(s)
    THEN [self |-> [from_year |-> int(s), to_year |-> int(s)], ret |-> TRUE]
    ELSE IF match_range(s) # {}
    THEN LET m == CHOOSE g \in match_range(s) : TRUE
         IN [self |-> [from_year |-> int(m[1]), to_year |-> int(m[2])], ret |-> TRUE]
    ELSE [self |-> self, ret |-> FALSE]

\* YearRange.parse: the object after the call and the value returned
parse(self, s) ==
    IF s = all_token
    THEN [self |-> [from_year |-> None, to_year |-> None], ret |-> TRUE]
    ELSE IF match_year(s)
    THEN [self |-> [from_year |-> int(s), to_year |-> int(s)], ret |-> TRUE]
    ELSE IF match_range(s) # {}
    THEN LET m == CHOOSE g \in match_range(s) : TRUE
             y1 == int(m[1])
             y2 == int(m[2])
         IN IF y1 <= y2
            THEN [self |-> [from_year |-> y1, to_year |-> y2], ret |-> TRUE]
            ELSE [self |-> self, ret |-> FALSE]
    ELSE [self |-> self, ret |-> FALSE]

\* YearRange.clear
clear(self) == [from_year |-> None, to_year |-> None]

\* an add that moves the opposite bound
add_wrong_bound(self, t) ==
    IF self.from_year = None
    THEN [from_year |-> t.year, to_year |-> t.year]
    ELSE IF t.year < self.from_year
    THEN [self EXCEPT !.to_year = t.year]
    ELSE IF t.year > self.to_year
    THEN [self EXCEPT !.from_year = t.year]
    ELSE self

\* YearRange.add
add(self, t) ==
    IF self.from_year = None
    THEN [from_year |-> t.year, to_year |-> t.year]
    ELSE IF t.year < self.from_year
    THEN [self EXCEPT !.from_year = t.year]
    ELSE IF t.year > self.to_year
    THEN [self EXCEPT !.to_year = t.year]
    ELSE self

\* YearRange.contains
contains(self, t) ==
    IF self.from_year = None
    THEN TRUE
    ELSE self.from_year <= t.year /\ t.year <= self.to_year

\* YearRange.count
count(self) ==
    IF self.from_year = None THEN 0 ELSE 1 + self.to_year - self.from_year

\* The YearRange object's calls, each recorded with the object before it.
NoText == <<>>
NoTime == DT(0, 0, 0, 0)

YearRangeInit ==
    /\ yr = YearRange
    /\ yr_call = [op |-> "init", s |-> NoText, t |-> NoTime, ret |-> FALSE, pre |-> YearRange]

Parse(s) ==
    /\ yr' = parse(yr, s).self
    /\ yr_call' = [op |-> "parse", s |-> s, t |-> NoTime, ret |-> parse(yr, s).ret, pre |-> yr]
    /\ UNCHANGED poster_vars

Clear ==
    /\ yr' = clear(yr)
    /\ yr_call' = [op |-> "clear", s |-> NoText, t |-> NoTime, ret |-> FALSE, pre |-> yr]
    /\ UNCHANGED poster_vars

Add(t) ==
    /\ yr' = add(yr, t)
    /\ yr_call' = [op |-> "add", s |-> NoText, t |-> t, ret |-> FALSE, pre |-> yr]
    /\ UNCHANGED poster_vars

(***************************************************************************)
(* datetime: the proleptic Gregorian calendar, isocalendar and strftime    *)
(***************************************************************************)

is_leap(y) == y % 4 = 0 /\ (y % 100 # 0 \/ y % 400 = 0)

days_before_year(y) ==
    (y - 1) * 365 + ((y - 1) \div 4) - ((y - 1) \div 100) + ((y - 1) \div 400)

days_in_month(y, m) ==
    IF m = 2 THEN (IF is_leap(y) THEN 29 ELSE 28)
    ELSE IF m \in {4, 6, 9, 11} THEN 30 ELSE 31

RECURSIVE days_before_month(_, _)
days_before_month(y, m) ==
    IF m = 1 THEN 0 ELSE days_before_month(y, m - 1) + days_in_month(y, m - 1)

\* the ordinal of a date, 1 for 0001-01-01
ymd2ord(y, m, d) == days_before_year(y) + days_before_month(y, m) + d

\* the ordinal of the Monday that starts ISO week 1 of year y
isoweek1monday(y) ==
    LET firstday == ymd2ord(y, 1, 1)
        firstweekday == (firstday + 6) % 7
        week1monday == firstday - firstweekday
    IN IF firstweekday > 3 THEN week1monday + 7 ELSE week1monday

\* datetime.isocalendar(): <<ISO year, ISO week number, ISO weekday>>
isocalendar(t) ==
    LET today == ymd2ord(t.year, t.month, t.day)
        week == (today - isoweek1monday(t.year)) \div 7
        day == (today - isoweek1monday(t.year)) % 7
    IN IF today < isoweek1monday(t.year)
       THEN <<t.year - 1,
              ((today - isoweek1monday(t.year - 1)) \div 7) + 1,
              ((today - isoweek1monday(t.year - 1)) % 7) + 1>>
       ELSE IF week >= 52 /\ today >= isoweek1monday(t.year + 1)
       THEN <<t.year + 1, 1, day + 1>>
       ELSE <<t.year, week + 1, day + 1>>

digit_char(n) ==
    CASE n = 0 -> "0" [] n = 1 -> "1" [] n = 2 -> "2" [] n = 3 -> "3"
      [] n = 4 -> "4" [] n = 5 -> "5" [] n = 6 -> "6" [] n = 7 -> "7"
      [] n = 8 -> "8" [] n = 9 -> "9"

\* n in decimal, zero-padded to w characters
RECURSIVE zero_padded(_, _)
zero_padded(n, w) ==
    IF w = 0 THEN <<>> ELSE Append(zero_padded(n \div 10, w - 1), digit_char(n % 10))

\* strftime with every date keyed as January the first of its year
strftime_year_only(t) ==
    zero_padded(t.year, 4) \o <<"-">> \o zero_padded(1, 2) \o <<"-">> \o zero_padded(1, 2)

\* t.strftime("%Y-%m-%d"), for the years 1000 to 9999
strftime(t) ==
    zero_padded(t.year, 4) \o <<"-">> \o zero_padded(t.month, 2) \o <<"-">> \o zero_padded(t.day, 2)

(***************************************************************************)
(* ValueRange: a running minimum and maximum                               *)
(***************************************************************************)

ValueRange == [lower |-> None, upper |-> None]

extend(r, value) ==
    IF r.lower = None
    THEN [lower |-> value, upper |-> value]
    ELSE [lower |-> IF value < r.lower THEN value ELSE r.lower,
          upper |-> IF value > r.upper THEN value ELSE r.upper]

lower(r) == r.lower

upper(r) == r.upper

(***************************************************************************)
(* Poster                                                                  *)
(***************************************************************************)

Track(t, l) == [start_time |-> t, length |-> l]

\* The tracks a caller hands over: two on one day, one on the eve of that
\* day in the year before, one later in the year.
Tracks ==
    { Track(DT(2020, 12, 31, 10), 1500),
      Track(DT(2021, 1, 1, 8), 1000),
      Track(DT(2021, 1, 1, 17), 2000),
      Track(DT(2021, 6, 15, 9), 5000) }

TrackLists == UNION { [1..n -> Tracks] : n \in 0..MaxTracks }

\* The canvas sizes a caller configures; the first is the constructor's.
Sizes == { <<200, 300>>, <<297, 420>> }

Drawers == { "drawer" }

Outputs == { "poster.svg" }

\* a __compute_years that recomputes the range on every call
compute_years_always(ys, trks) ==
    LET Fold[i \in 0..Len(trks)] ==
            IF i = 0 THEN YearRange ELSE add(Fold[i - 1], trks[i].start_time)
    IN <<Fold[Len(trks)]>>

\* Poster.__compute_years: self.years after the call
compute_years(ys, trks) ==
    IF ys # <<>>
    THEN ys
    ELSE LET Fold[i \in 0..Len(trks)] ==
                 IF i = 0 THEN YearRange ELSE add(Fold[i - 1], trks[i].start_time)
         IN <<Fold[Len(trks)]>>

\* the dict operations of set_tracks; a dict is its items in insertion order
has_key(d, k) == \E i \in 1..Len(d) : d[i].key = k

dict_append(d, k, v) ==
    [i \in 1..Len(d) |-> IF d[i].key = k THEN [d[i] EXCEPT !.value = Append(@, v)] ELSE d[i]]

dict_insert(d, k, v) == Append(d, [key |-> k, value |-> v])

\* one pass of the loop with the year filter left out
group_track_unfiltered(ys, acc, track) ==
    LET text_date == strftime(track.start_time)
    IN [tracks_by_date |->
            IF has_key(acc.tracks_by_date, text_date)
            THEN dict_append(acc.tracks_by_date, text_date, track)
            ELSE dict_insert(acc.tracks_by_date, text_date, <<track>>),
        length_range |-> extend(acc.length_range, track.length)]

\* one pass of the first loop of set_tracks
group_track(ys, acc, track) ==
    IF ~contains(ys[1], track.start_time)
    THEN acc
    ELSE LET text_date == strftime(track.start_time)
         IN [tracks_by_date |->
                 IF has_key(acc.tracks_by_date, text_date)
                 THEN dict_append(acc.tracks_by_date, text_date, track)
                 ELSE dict_insert(acc.tracks_by_date, text_date, <<track>>),
             length_range |-> extend(acc.length_range, track.length)]

\* sum([t.length for t in tracks])
RECURSIVE sum_lengths(_)
sum_lengths(trks) ==
    IF trks = <<>> THEN 0 ELSE Head(trks).length + sum_lengths(Tail(trks))

\* a set_tracks that keeps the groups and ranges it had and merges into them
set_tracks_merging(old, ys, trks) ==
    LET ys1 == compute_years(ys, trks)
        Grouped[i \in 0..Len(trks)] ==
            IF i = 0
            THEN [tracks_by_date |-> old.tracks_by_date, length_range |-> old.length_range]
            ELSE group_track(ys1, Grouped[i - 1], trks[i])
        by_date == Grouped[Len(trks)].tracks_by_date
        ByDate[i \in 0..Len(by_date)] ==
            IF i = 0 THEN old.length_range_by_date
            ELSE extend(ByDate[i - 1], sum_lengths(by_date[i].value))
    IN [tracks |-> trks,
        tracks_by_date |-> by_date,
        length_range |-> Grouped[Len(trks)].length_range,
        length_range_by_date |-> ByDate[Len(by_date)],
        years |-> ys1]

\* Poster.set_tracks: the fields it assigns. old is the Poster's derived
\* state before the call, which the method overwrites.
set_tracks(old, ys, trks) ==
    LET ys1 == compute_years(ys, trks)
        Grouped[i \in 0..Len(trks)] ==
            IF i = 0
            THEN [tracks_by_date |-> <<>>, length_range |-> ValueRange]
            ELSE group_track(ys1, Grouped[i - 1], trks[i])
        by_date == Grouped[Len(trks)].tracks_by_date
        ByDate[i \in 0..Len(by_date)] ==
            IF i = 0 THEN ValueRange
            ELSE extend(ByDate[i - 1], sum_lengths(by_date[i].value))
    IN [tracks |-> trks,
        tracks_by_date |-> by_date,
        length_range |-> Grouped[Len(trks)].length_range,
        length_range_by_date |-> ByDate[Len(by_date)],
        years |-> ys1]

\* The Poster object, as the methods below read it.
Poster ==
    [tracks |-> tracks, tracks_by_date |-> tracks_by_date,
     length_range |-> length_range, length_range_by_date |-> length_range_by_date,
     years |-> years, width |-> width, height |-> height]

\* the tracks of the date groups, group after group
RECURSIVE grouped_tracks(_)
grouped_tracks(d) ==
    IF d = <<>> THEN <<>> ELSE Head(d).value \o grouped_tracks(Tail(d))

\* what the loop of __compute_track_statistics gathers over a track list
gather_statistics(trks) ==
    LET Range[i \in 0..Len(trks)] ==
            IF i = 0 THEN ValueRange ELSE extend(Range[i - 1], trks[i].length)
    IN [total_length |-> sum_lengths(trks),
        length_range |-> Range[Len(trks)],
        weeks |-> { <<trks[i].start_time.year, isocalendar(trks[i].start_time)[2]>> :
                      i \in 1..Len(trks) }]

\* statistics taken over the tracks that passed the year filter
compute_track_statistics_filtered(self) ==
    LET trks == grouped_tracks(self.tracks_by_date)
        g == gather_statistics(trks)
    IN IF Len(trks) = 0
       THEN [raised |-> "ZeroDivisionError", value |-> <<>>]
       ELSE [raised |-> "",
             value |-> <<[total_length |-> g.total_length,
                          average_length |-> <<g.total_length, Len(trks)>>,
                          min_length |-> lower(g.length_range),
                          max_length |-> upper(g.length_range),
                          weeks |-> Cardinality(g.weeks)]>>]

\* Poster.__compute_track_statistics: the tuple it returns, or the exception
\* it raises. average_length is the quotient total_length / len(self.tracks),
\* kept as <<dividend, divisor>>.
compute_track_statistics(self) ==
    LET g == gather_statistics(self.tracks)
    IN IF Len(self.tracks) = 0
       THEN [raised |-> "ZeroDivisionError", value |-> <<>>]
       ELSE [raised |-> "",
             value |-> <<[total_length |-> g.total_length,
                          average_length |-> <<g.total_length, Len(self.tracks)>>,
                          min_length |-> lower(g.length_range),
                          max_length |-> upper(g.length_range),
                          weeks |-> Cardinality(g.weeks)]>>]

\* a call made on the canvas or on the drawing capability
Emit(fn, args) == [fn |-> fn, args |-> args]

\* Poster.__draw_header
draw_header(self) == << Emit("text", <<"title", 10, 20>>) >>

\* Poster.__draw_footer: the texts it adds, and what it raised if it did.
\* A text is recorded by its label, its place and the numbers formatted into it.
draw_footer(self) ==
    LET st == compute_track_statistics(self)
        v == st.value[1]
        n == Len(self.tracks)
        h == self.height
    IN IF st.raised # ""
       THEN [emitted |-> <<>>, raised |-> st.raised, stats |-> <<>>]
       ELSE IF v.weeks = 0
       THEN [emitted |-> << Emit("text", <<"ATHLETE", 10, h - 20>>),
                            Emit("text", <<"athlete", 10, h - 10>>),
                            Emit("text", <<"STATISTICS", 120, h - 20>>),
                            Emit("text", <<"Number", 120, h - 15, n>>) >>,
             raised |-> "ZeroDivisionError", stats |-> st.value]
       ELSE [emitted |-> << Emit("text", <<"ATHLETE", 10, h - 20>>),
                            Emit("text", <<"athlete", 10, h - 10>>),
                            Emit("text", <<"STATISTICS", 120, h - 20>>),
                            Emit("text", <<"Number", 120, h - 15, n>>),
                            Emit("text", <<"Weekly", 120, h - 10, n, v.weeks>>),
                            Emit("text", <<"Total", 139, h - 15, v.total_length>>),
                            Emit("text", <<"Avg", 139, h - 10, v.average_length>>),
                            Emit("text", <<"Min", 167, h - 15, v.min_length>>),
                            Emit("text", <<"Max", 167, h - 10, v.max_length>>) >>,
             raised |-> "", stats |-> st.value]

\* Poster.__draw_tracks
draw_tracks(self, drawer, w, h, offset_x, offset_y) ==
    << Emit("tracks_drawer.draw", <<drawer, w, h, offset_x, offset_y>>) >>

\* a draw that hands the tracks the canvas less one margin only
draw_one_margin(self, drawer, output) ==
    LET start == << Emit("Drawing", <<output, self.width, self.height>>),
                    Emit("viewbox", <<0, 0, self.width, self.height>>),
                    Emit("rect", <<0, 0, self.width, self.height, "background">>) >>
                 \o draw_header(self)
        footer == draw_footer(self)
    IN IF footer.raised # ""
       THEN [emitted |-> start \o footer.emitted, raised |-> footer.raised,
             stats |-> footer.stats]
       ELSE [emitted |-> start \o footer.emitted
                         \o draw_tracks(self, drawer, self.width - 20, self.height - 30, 10, 30)
                         \o << Emit("save", <<output>>) >>,
             raised |-> "", stats |-> footer.stats]

\* Poster.draw: the calls it makes in order, and what it raised if it did
draw(self, drawer, output) ==
    LET start == << Emit("Drawing", <<output, self.width, self.height>>),
                    Emit("viewbox", <<0, 0, self.width, self.height>>),
                    Emit("rect", <<0, 0, self.width, self.height, "background">>) >>
                 \o draw_header(self)
        footer == draw_footer(self)
    IN IF footer.raised # ""
       THEN [emitted |-> start \o footer.emitted, raised |-> footer.raised,
             stats |-> footer.stats]
       ELSE [emitted |-> start \o footer.emitted
                         \o draw_tracks(self, drawer, self.width - 20, self.height - 30 - 30, 10, 30)
                         \o << Emit("save", <<output>>) >>,
             raised |-> "", stats |-> footer.stats]

PosterInit ==
    /\ tracks = <<>>
    /\ tracks_by_date = <<>>
    /\ length_range = ValueRange
    /\ length_range_by_date = ValueRange
    /\ years = <<>>
    /\ years_by = "none"
    /\ width = 200
    /\ height = 300
    /\ tracks_drawer = "None"
    /\ emitted = <<>>
    /\ stats = <<>>
    /\ call = [op |-> "init", raised |-> "", pre_years |-> <<>>]

\* poster.set_tracks(trks)
SetTracks(trks) ==
    \E new \in {set_tracks(Poster, years, trks)} :
       /\ tracks' = new.tracks
       /\ tracks_by_date' = new.tracks_by_date
       /\ length_range' = new.length_range
       /\ length_range_by_date' = new.length_range_by_date
       /\ years' = new.years
       /\ years_by' = IF years = <<>> THEN "compute_years" ELSE years_by
       /\ emitted' = <<>>
       /\ stats' = <<>>
       /\ call' = [op |-> "set_tracks", raised |-> "", pre_years |-> years]
       /\ UNCHANGED <<width, height, tracks_drawer, yr_vars>>

\* poster.draw(drawer, output)
Draw(drawer, output) ==
    \E done \in {draw(Poster, drawer, output)} :
       /\ tracks_drawer' = drawer
       /\ emitted' = done.emitted
       /\ stats' = done.stats
       /\ call' = [op |-> "draw", raised |-> done.raised, pre_years |-> years]
       /\ UNCHANGED <<tracks, tracks_by_date, length_range, length_range_by_date,
                      years, years_by, width, height, yr_vars>>

\* the caller's year filter: years = YearRange(); years.parse(s); poster.years = years.
\* The caller configures the filter before it hands any tracks over.
SetYears(s) ==
    \E parsed \in {parse(YearRange, s)} :
    /\ tracks = <<>>
    /\ parsed.ret
    /\ years' = <<parsed.self>>
    /\ years_by' = "caller"
    /\ emitted' = <<>>
    /\ stats' = <<>>
    /\ call' = [op |-> "years", raised |-> "", pre_years |-> years]
    /\ UNCHANGED <<tracks, tracks_by_date, length_range, length_range_by_date,
                   width, height, tracks_drawer, yr_vars>>

\* the caller's canvas size: poster.width, poster.height = size
SetSize(size) ==
    /\ width' = size[1]
    /\ height' = size[2]
    /\ emitted' = <<>>
    /\ stats' = <<>>
    /\ call' = [op |-> "size", raised |-> "", pre_years |-> years]
    /\ UNCHANGED <<tracks, tracks_by_date, length_range, length_range_by_date,
                   years, years_by, tracks_drawer, yr_vars>>

Init == YearRangeInit /\ PosterInit

Next ==
    \/ \E trks \in TrackLists : SetTracks(trks)
    \/ \E drawer \in Drawers, output \in Outputs : Draw(drawer, output)
    \/ \E s \in ParseInputs : SetYears(s)
    \/ \E size \in Sizes : SetSize(size)

Spec == Init /\ [][Next]_vars

NextYearRange ==
    \/ \E s \in ParseInputs : Parse(s)
    \/ \E t \in Timestamps : Add(t)
    \/ Clear

SpecYearRange == Init /\ [][NextYearRange]_vars

(***************************************************************************)
(* Properties                                                              *)
(***************************************************************************)

SetMin(S) == CHOOSE x \in S : \A y \in S : x <= y

SetMax(S) == CHOOSE x \in S : \A y \in S : x >= y

\* the minimum and maximum of a set of samples, as a ValueRange holds them
RangeOver(S) ==
    IF S = {} THEN [lower |-> None, upper |-> None]
    ELSE [lower |-> SetMin(S), upper |-> SetMax(S)]

\* how often v occurs in the sequence q
Occurrences(q, v) == Cardinality({ i \in 1..Len(q) : q[i] = v })

\* year y lies in the range r, an unset range holding every year
YearIn(r, y) == r.from_year = None \/ (r.from_year <= y /\ y <= r.to_year)

\* the input tracks whose start year lies in the range r, in input order
Passing(r) == SelectSeq(tracks, LAMBDA tr : YearIn(r, tr.start_time.year))

\* the date a YYYY-MM-DD key reads as
DateOfKey(k) ==
    <<decimal(SubSeq(k, 1, 4)), decimal(SubSeq(k, 6, 7)), decimal(SubSeq(k, 9, 10))>>

\* the key k is the date of track tr
KeyIsDateOf(k, tr) ==
    /\ Len(k) = 10 /\ k[5] = "-" /\ k[8] = "-"
    /\ all_digits(SubSeq(k, 1, 4)) /\ all_digits(SubSeq(k, 6, 7)) /\ all_digits(SubSeq(k, 9, 10))
    /\ DateOfKey(k) = <<tr.start_time.year, tr.start_time.month, tr.start_time.day>>

\* the tracks of q that start on the date of key k, in the order of q
OnDate(q, k) == SelectSeq(q, LAMBDA tr : KeyIsDateOf(k, tr))

\* the sum of the lengths of the tracks of q
TotalLength(q) ==
    LET S[i \in 0..Len(q)] == IF i = 0 THEN 0 ELSE S[i - 1] + q[i].length
    IN S[Len(q)]

\* every track held in a date group
AllGrouped == grouped_tracks(tracks_by_date)

\* C1: lazy-once year range. A set_tracks call on a Poster whose years is
\* unset leaves years set to the span of the start years of its input (an
\* unset YearRange for an empty input); a set_tracks call on a Poster whose
\* years is set leaves years as it was and groups exactly the input tracks
\* that lie in that earlier range.
C1_LazyOnceYears ==
    call.op = "set_tracks" =>
        /\ call.pre_years = <<>> =>
             /\ Len(years) = 1
             /\ years[1] =
                  IF tracks = <<>> THEN [from_year |-> None, to_year |-> None]
                  ELSE LET ys == { tracks[i].start_time.year : i \in 1..Len(tracks) }
                       IN [from_year |-> SetMin(ys), to_year |-> SetMax(ys)]
        /\ call.pre_years # <<>> =>
             /\ years = call.pre_years
             /\ \A tr \in Tracks :
                  Occurrences(AllGrouped, tr) =
                      IF YearIn(call.pre_years[1], tr.start_time.year)
                      THEN Occurrences(tracks, tr) ELSE 0

\* a later set_tracks call, on a range an earlier call computed, whose input
\* holds a track outside that range and a track inside it
C1_Witness ==
    /\ call.op = "set_tracks"
    /\ years_by = "compute_years"
    /\ call.pre_years # <<>>
    /\ years[1].from_year # None
    /\ \E i \in 1..Len(tracks) : ~YearIn(years[1], tracks[i].start_time.year)
    /\ \E i \in 1..Len(tracks) : YearIn(years[1], tracks[i].start_time.year)

\* C2: after set_tracks on a non-empty input, the date groups taken together
\* hold each input track whose start year is in years as often as the input
\* does and no other track; every group is keyed by the start date of its
\* tracks, no two groups share a key, a group holds its tracks in input
\* order; the bounds of length_range are lengths of tracks in range and the
\* bounds of length_range_by_date are sums over groups.
C2_GroupsAreFilteredInput ==
    (call.op = "set_tracks" /\ tracks # <<>>) =>
        /\ \A tr \in Tracks :
             Occurrences(AllGrouped, tr) =
                 IF YearIn(years[1], tr.start_time.year) THEN Occurrences(tracks, tr) ELSE 0
        /\ \A i \in 1..Len(tracks_by_date) :
             /\ tracks_by_date[i].value # <<>>
             /\ \A j \in 1..Len(tracks_by_date[i].value) :
                  KeyIsDateOf(tracks_by_date[i].key, tracks_by_date[i].value[j])
             /\ tracks_by_date[i].value = OnDate(Passing(years[1]), tracks_by_date[i].key)
             /\ \A j \in 1..Len(tracks_by_date) :
                  tracks_by_date[i].key = tracks_by_date[j].key => i = j
        /\ LET lengths == { Passing(years[1])[i].length : i \in 1..Len(Passing(years[1])) }
               sums == { TotalLength(tracks_by_date[i].value) : i \in 1..Len(tracks_by_date) }
           IN /\ lengths = {} => length_range = RangeOver({})
              /\ lengths # {} => lower(length_range) \in lengths /\ upper(length_range) \in lengths
              /\ sums = {} => length_range_by_date = RangeOver({})
              /\ sums # {} => lower(length_range_by_date) \in sums
                              /\ upper(length_range_by_date) \in sums

\* a set_tracks call under a caller's year filter that kept a track and left
\* out a track of another year
C2_Witness ==
    /\ call.op = "set_tracks"
    /\ years_by = "caller"
    /\ Len(tracks) > Len(AllGrouped)
    /\ Len(AllGrouped) >= 1

\* C3: full rebuild. After any set_tracks call the three derived fields are
\* what the call's input and years give and nothing else: tracks_by_date has
\* one group per date of a track in range, in the order the dates first occur,
\* each holding that date's tracks in range; length_range is the least and
\* greatest length of a track in range; length_range_by_date is the least and
\* greatest per-date sum.
C3_FullRebuild ==
    call.op = "set_tracks" =>
        LET passing == Passing(years[1])
            first(k) == SetMin({ i \in 1..Len(passing) : KeyIsDateOf(k, passing[i]) })
        IN /\ \A i \in 1..Len(passing) :
                \E j \in 1..Len(tracks_by_date) : KeyIsDateOf(tracks_by_date[j].key, passing[i])
           /\ \A j \in 1..Len(tracks_by_date) :
                /\ tracks_by_date[j].value = OnDate(passing, tracks_by_date[j].key)
                /\ tracks_by_date[j].value # <<>>
           /\ \A i, j \in 1..Len(tracks_by_date) :
                i < j => first(tracks_by_date[i].key) < first(tracks_by_date[j].key)
           /\ length_range = RangeOver({ passing[i].length : i \in 1..Len(passing) })
           /\ length_range_by_date =
                RangeOver({ TotalLength(OnDate(passing, tracks_by_date[j].key)) :
                              j \in 1..Len(tracks_by_date) })

\* a set_tracks call that follows an earlier one (which computed years) and
\* whose input gives two date groups with different sums
C3_Witness ==
    /\ call.op = "set_tracks"
    /\ years_by = "compute_years"
    /\ call.pre_years # <<>>
    /\ Len(tracks_by_date) = 2
    /\ lower(length_range_by_date) < upper(length_range_by_date)

\* the places in the calls of the last operation where fn was called
CallsOf(fn) == { i \in 1..Len(emitted) : emitted[i].fn = fn }

\* the place of the footer text with this label, 0 if it was not added
TextAt(label) ==
    LET at == { i \in CallsOf("text") : emitted[i].args[1] = label }
    IN IF at = {} THEN 0 ELSE SetMin(at)

\* the drawing capability was invoked once, with the content rectangle, after
\* background, header and footer, and the artifact was saved once, last
DrawnOnceThenSaved ==
    /\ Cardinality(CallsOf("tracks_drawer.draw")) = 1
    /\ Cardinality(CallsOf("save")) = 1
    /\ Cardinality(CallsOf("rect")) = 1
    /\ \A i \in CallsOf("tracks_drawer.draw") :
         /\ emitted[i].args = <<tracks_drawer, width - 20, height - 60, 10, 30>>
         /\ \A j \in CallsOf("rect") : j < i
         /\ TextAt("title") > 0 /\ TextAt("title") < i
         /\ \A label \in {"ATHLETE", "athlete", "STATISTICS", "Number", "Weekly",
                          "Total", "Avg", "Min", "Max"} :
              TextAt(label) > TextAt("title") /\ TextAt(label) < i
         /\ \A j \in CallsOf("save") : j = i + 1 /\ j = Len(emitted)

\* C6: a draw on a Poster whose tracks list is empty ends in a defined error
\* of the statistics computation, not in a division by zero.
C6_EmptyTracksDefinedError ==
    (call.op = "draw" /\ tracks = <<>>) => call.raised \notin {"", "ZeroDivisionError"}

\* C7: the weeks value of the statistics is the number of distinct
\* (ISO year, ISO week number) pairs of the tracks' start timestamps.
C7_WeeksAreIsoWeeks ==
    (call.op = "draw" /\ stats # <<>>) =>
        stats[1].weeks =
            Cardinality({ <<isocalendar(tracks[i].start_time)[1],
                            isocalendar(tracks[i].start_time)[2]>> : i \in 1..Len(tracks) })

\* C8 as stated: every draw call invokes the drawing capability exactly once
\* with (width-20, height-60) at (10, 30), after background, header and
\* footer, and saves the artifact exactly once, as the last step.
C8_EveryDrawDrawsAndSaves ==
    call.op = "draw" => DrawnOnceThenSaved

\* C8 amended: a draw call on a Poster with a non-empty tracks list does so;
\* a draw call on a Poster with an empty tracks list raises in the footer,
\* after the background and the header, and neither invokes the drawing
\* capability nor saves the artifact.
C8_DrawDrawsAndSavesUnlessEmpty ==
    call.op = "draw" =>
        IF tracks # <<>>
        THEN call.raised = "" /\ DrawnOnceThenSaved
        ELSE /\ call.raised # ""
             /\ CallsOf("tracks_drawer.draw") = {}
             /\ CallsOf("save") = {}
             /\ Cardinality(CallsOf("rect")) = 1
             /\ TextAt("title") > 0

\* a completed draw on a canvas of another size than the constructor's
C8_Witness ==
    /\ call.op = "draw"
    /\ tracks # <<>>
    /\ width # 200
    /\ CallsOf("save") # {}

\* C10: the footer statistics are taken over the whole tracks list of the
\* last set_tracks call: total_length is the sum of the lengths of all its
\* tracks, min_length and max_length the least and greatest of them, whether
\* or not the year filter kept the track in tracks_by_date.
C10_StatisticsOverAllTracks ==
    (call.op = "draw" /\ tracks # <<>>) =>
        /\ Len(stats) = 1
        /\ stats[1].total_length = TotalLength(tracks)
        /\ stats[1].min_length = SetMin({ tracks[i].length : i \in 1..Len(tracks) })
        /\ stats[1].max_length = SetMax({ tracks[i].length : i \in 1..Len(tracks) })

\* a draw whose statistics count a track that the year filter left out of
\* the date groups
C10_Witness ==
    /\ call.op = "draw"
    /\ stats # <<>>
    /\ AllGrouped # <<>>
    /\ Len(AllGrouped) < Len(tracks)
    /\ stats[1].total_length > TotalLength(AllGrouped)

\* the texts the spec's grammar of parse accepts: the token all, a digit
\* sequence, two digit sequences joined by a hyphen with the first <= the second
InGrammar(s) ==
    \/ s = <<"a", "l", "l">>
    \/ (Len(s) >= 1 /\ \A i \in 1..Len(s) : s[i] \in Digits)
    \/ \E i \in 2..(Len(s) - 1) :
         /\ s[i] = "-"
         /\ \A j \in (1..Len(s)) \ {i} : s[j] \in Digits
         /\ decimal(SubSeq(s, 1, i - 1)) <= decimal(SubSeq(s, i + 1, Len(s)))

\* C4: from_year and to_year are both unset or both set, and when set
\* from_year <= to_year, after any sequence of parse, add and clear calls.
C4_BoundsTogetherAndOrdered ==
    /\ (yr.from_year = None) <=> (yr.to_year = None)
    /\ yr.from_year # None => yr.from_year <= yr.to_year

\* a parse of the hyphen form that set two different bounds
C4_Witness ==
    /\ yr_call.op = "parse"
    /\ yr_call.ret
    /\ yr.from_year # None
    /\ yr.from_year < yr.to_year

\* C5: parse returns false for every text outside the grammar, and leaves
\* from_year and to_year as they were.
C5_ParseRejectsOutsideGrammar ==
    (yr_call.op = "parse" /\ ~InGrammar(yr_call.s)) =>
        /\ yr_call.ret = FALSE
        /\ yr = yr_call.pre

\* C9: after add(t), contains(t) is true; on an unset range both bounds are
\* t's year; on a set range from_year has not increased and to_year has not
\* decreased, so every year within the earlier bounds is within the new ones.
C9_AddWidens ==
    yr_call.op = "add" =>
        /\ contains(yr, yr_call.t)
        /\ yr_call.pre.from_year = None =>
             yr = [from_year |-> yr_call.t.year, to_year |-> yr_call.t.year]
        /\ yr_call.pre.from_year # None =>
             /\ yr.from_year <= yr_call.pre.from_year
             /\ yr.to_year >= yr_call.pre.to_year
             /\ \A y \in yr_call.pre.from_year..yr_call.pre.to_year :
                  yr.from_year <= y /\ y <= yr.to_year

\* an add that moved the upper bound of a set range
C9_Witness ==
    /\ yr_call.op = "add"
    /\ yr_call.pre.from_year # None
    /\ yr_call.t.year > yr_call.pre.to_year
    /\ yr.to_year = yr_call.t.year
    /\ yr.from_year = yr_call.pre.from_year

====
